---- MODULE Spec2Model ----
(***************************************************************************)
(* Model of advanced-vector/vector.h: RawMemory<T> (an owner of one raw    *)
(* block) and Vector<T> (a growable array built on it).                    *)
(*                                                                         *)
(* The heap is a map from block addresses to sequences of cells.  A cell   *)
(* is Raw (uninitialized) or holds the value of a live element.  Every     *)
(* member function of Vector is one action; it runs the statements of the  *)
(* function in order on a working copy of the state (the record m) and     *)
(* commits the result.  An element operation or an allocation that can     *)
(* throw throws when the failure countdown m.f reaches it.                 *)
(***************************************************************************)
EXTENDS Integers, Sequences, FiniteSets, TLC

\* ---------------------------------------------------------------- bounds
\* Largest capacity a vector may end an operation with.
MaxCap == 3
\* Largest number of cells the vectors may own together after an operation.
MaxCells == 3

\* The Vector objects of the program: A = 1, B = 2.  Slot 0 is the local
\* object rhs_copy of the copy assignment.
Slots == {1, 2}
rhs_copy == 0
AllSlots == {rhs_copy} \cup Slots
\* Block addresses; nullptr is no block.
Addrs == {1, 2, 3}
nullptr == 0
\* Element values a caller passes in.
Vals == {0, 1}
\* T(): the value of a value-initialized element.
Dflt == 0
\* The state of an element that was moved from (valid, unspecified).
Moved == -1
\* An uninitialized cell.
Raw == -2
\* What a read of an uninitialized cell yields.
Indet == -3

\* The element types T the template is instantiated with, by the two traits
\* the code asks for: std::is_nothrow_move_constructible_v<T> and
\* std::is_copy_constructible_v<T>.
TypeKinds ==
    { [nothrow_move |-> TRUE,  copyable |-> TRUE],
      [nothrow_move |-> FALSE, copyable |-> TRUE],
      [nothrow_move |-> FALSE, copyable |-> FALSE] }

\* Which fallible step of an operation throws (0: none).
FailPoints == 0 .. (2 * MaxCap + 1)

VARIABLES
    T,      \* the element type's traits
    vec,    \* vec[i]: the Vector object i: alive, data_, size_
    heap,   \* heap[a]: the cells of block a, <<>> when a is not allocated
    ub,     \* kinds of undefined behaviour the last operation ran into
    hist,   \* hist[i]: the appends to i since it was created empty
    moved   \* the vectors that were moved from and not assigned to since

vars == <<T, vec, heap, ub, hist, moved>>

Max(a, b) == IF a >= b THEN a ELSE b

\* ------------------------------------------------------------ raw memory
EmptyRaw == [buffer_ |-> nullptr, capacity_ |-> 0]
NoVector == [alive |-> FALSE, data_ |-> EmptyRaw, size_ |-> 0]

\* The working state of an operation in progress.
\*   exc:  an exception is propagating     dead: the process has crashed
\*   f:    countdown to the step that throws
\*   leak: a live element was lost (overwritten or released undestroyed)
\*   na, nc, nd: blocks allocated, elements constructed or assigned, destroyed
\*   r:    the block the last allocation returned
\*   it:   the position (block, offset) the operation returns
Start(fl) ==
    [vec |-> vec, heap |-> heap, ub |-> {}, exc |-> FALSE, dead |-> FALSE,
     f |-> fl, leak |-> FALSE, na |-> 0, nc |-> 0, nd |-> 0, r |-> nullptr,
     it |-> <<nullptr, 0>>]

Skip(m) == m.exc \/ m.dead
Caught(m) == [m EXCEPT !.exc = FALSE]
Throw(m) == IF m.dead THEN m ELSE [m EXCEPT !.exc = TRUE]

\* A step that throws when `can` and the countdown has reached it.
Fallible(m, can) ==
    IF ~can \/ m.f = 0 THEN m
    ELSE IF m.f = 1 THEN [m EXCEPT !.f = 0, !.exc = TRUE]
    ELSE [m EXCEPT !.f = @ - 1]

\* An access the hardware or the debug assertions stop: the process ends.
Fault(m, kind) == [m EXCEPT !.ub = @ \cup {kind}, !.dead = TRUE]
\* Undefined behaviour the build may run through.
Flag(m, kind) == [m EXCEPT !.ub = @ \cup {kind}]

Addressable(m, a, i) == a # nullptr /\ i >= 0 /\ i < Len(m.heap[a])
Cell(m, a, i) == m.heap[a][i + 1]
BadAccess(m, a, i) == Fault(m, IF a = nullptr THEN "null" ELSE "out_of_block")

FreeAddrs(m) == {a \in Addrs : m.heap[a] = <<>>}

\* RawMemory::Allocate: n cells of raw memory, nullptr for n = 0.
Allocate(m, n) ==
    IF Skip(m) THEN m
    ELSE IF n = 0 THEN [m EXCEPT !.r = nullptr]
    ELSE LET m1 == Fallible(m, TRUE)
             a == CHOOSE x \in FreeAddrs(m) : \A y \in FreeAddrs(m) : x <= y
         IN IF m1.exc THEN m1
            ELSE [m1 EXCEPT !.heap[a] = [i \in 1 .. n |-> Raw],
                            !.na = @ + 1, !.r = a]

\* RawMemory::Deallocate, called by ~RawMemory: also while an exception
\* unwinds.  Elements still live in the block are lost; the release of a
\* block that is not allocated is undefined.
Deallocate(m, a) ==
    IF m.dead \/ a = nullptr THEN m
    ELSE IF m.heap[a] = <<>> THEN Flag(m, "double_release")
    ELSE [m EXCEPT !.heap[a] = <<>>,
                   !.leak = @ \/ (\E i \in 1 .. Len(m.heap[a]) : m.heap[a][i] # Raw)]

RawMemory_Swap_buffer_only(d1, d2) ==
    << [buffer_ |-> d2.buffer_, capacity_ |-> d1.capacity_],
       [buffer_ |-> d1.buffer_, capacity_ |-> d2.capacity_] >>

\* RawMemory::Swap: the two objects after the exchange.
RawMemory_Swap(d1, d2) ==
    << [buffer_ |-> d2.buffer_, capacity_ |-> d2.capacity_],
       [buffer_ |-> d1.buffer_, capacity_ |-> d1.capacity_] >>

\* ---------------------------------------------------- element operations
\* new (a + i) T(v): construction of an element in cell i of block a.
Construct(m, a, i, v, can) ==
    IF Skip(m) THEN m
    ELSE LET m1 == Fallible(m, can)
         IN IF m1.exc THEN m1
            ELSE IF ~Addressable(m1, a, i) THEN BadAccess(m1, a, i)
            ELSE [m1 EXCEPT !.heap[a][i + 1] = v,
                            !.leak = @ \/ (Cell(m1, a, i) # Raw),
                            !.nc = @ + 1]

\* The destructor of the element in cell i of block a.
Destroy(m, a, i) ==
    IF Skip(m) THEN m
    ELSE IF ~Addressable(m, a, i) THEN BadAccess(m, a, i)
    ELSE [m EXCEPT !.heap[a][i + 1] = Raw,
                   !.ub = IF Cell(m, a, i) = Raw THEN @ \cup {"destroy_raw"} ELSE @,
                   !.nd = @ + 1]

\* The value read from cell i of block a.
ReadVal(m, a, i) == IF Cell(m, a, i) = Raw THEN Indet ELSE Cell(m, a, i)
ReadFlag(m, a, i) == IF Cell(m, a, i) = Raw THEN Flag(m, "read_raw") ELSE m

\* T's copy constructor: cell (da, di) from cell (sa, si).
CopyConstruct(m, sa, si, da, di) ==
    IF Skip(m) THEN m
    ELSE LET m1 == Fallible(m, TRUE)
         IN IF m1.exc THEN m1
            ELSE IF ~Addressable(m1, sa, si) THEN BadAccess(m1, sa, si)
            ELSE Construct(ReadFlag(m1, sa, si), da, di, ReadVal(m1, sa, si), FALSE)

\* The source of a move afterwards.
MovedFrom(m, sa, si) ==
    IF Skip(m) \/ Cell(m, sa, si) = Raw THEN m
    ELSE [m EXCEPT !.heap[sa][si + 1] = Moved]

\* T's move constructor: cell (da, di) from cell (sa, si).
MoveConstruct(m, sa, si, da, di) ==
    IF Skip(m) THEN m
    ELSE LET m1 == Fallible(m, ~T.nothrow_move)
         IN IF m1.exc THEN m1
            ELSE IF ~Addressable(m1, sa, si) THEN BadAccess(m1, sa, si)
            ELSE MovedFrom(Construct(ReadFlag(m1, sa, si), da, di,
                                     ReadVal(m1, sa, si), FALSE), sa, si)

\* An assignment of the value v to the element in cell (da, di).
AssignVal(m, da, di, v, can) ==
    IF Skip(m) THEN m
    ELSE LET m1 == Fallible(m, can)
         IN IF m1.exc THEN m1
            ELSE IF ~Addressable(m1, da, di) THEN BadAccess(m1, da, di)
            ELSE [m1 EXCEPT !.heap[da][di + 1] = v,
                            !.ub = IF Cell(m1, da, di) = Raw
                                   THEN @ \cup {"assign_raw"} ELSE @,
                            !.nc = @ + 1]

\* T's move assignment: cell (da, di) from cell (sa, si).
MoveAssign(m, sa, si, da, di) ==
    IF Skip(m) THEN m
    ELSE IF ~Addressable(m, sa, si) THEN BadAccess(m, sa, si)
    ELSE LET m1 == AssignVal(ReadFlag(m, sa, si), da, di, ReadVal(m, sa, si),
                             ~T.nothrow_move)
         IN IF m1.exc THEN [m1 EXCEPT !.ub = m.ub] ELSE MovedFrom(m1, sa, si)

\* T's copy assignment: cell (da, di) from cell (sa, si).
CopyAssign(m, sa, si, da, di) ==
    IF Skip(m) THEN m
    ELSE IF ~Addressable(m, sa, si) THEN BadAccess(m, sa, si)
    ELSE LET m1 == AssignVal(ReadFlag(m, sa, si), da, di, ReadVal(m, sa, si), TRUE)
         IN IF m1.exc THEN [m1 EXCEPT !.ub = m.ub] ELSE m1

\* ------------------------------------------------------------ algorithms
RECURSIVE destroy_n(_, _, _, _)
\* std::destroy_n(a + i, n)
destroy_n(m, a, i, n) ==
    IF n <= 0 THEN m ELSE destroy_n(Destroy(m, a, i), a, i + 1, n - 1)

RECURSIVE UninitCopyLoop(_, _, _, _, _, _, _)
\* The loop of std::uninitialized_copy_n; what it has constructed is
\* destroyed again when a copy throws.
UninitCopyLoop(m, sa, si, n, da, di, k) ==
    IF k >= n \/ Skip(m) THEN m
    ELSE LET m1 == CopyConstruct(m, sa, si + k, da, di + k)
         IN IF m1.exc THEN Throw(destroy_n(Caught(m1), da, di, k))
            ELSE UninitCopyLoop(m1, sa, si, n, da, di, k + 1)

\* std::uninitialized_copy_n(sa + si, n, da + di)
uninitialized_copy_n(m, sa, si, n, da, di) == UninitCopyLoop(m, sa, si, n, da, di, 0)

RECURSIVE UninitMoveLoop(_, _, _, _, _, _, _)
\* The loop of std::uninitialized_move_n.
UninitMoveLoop(m, sa, si, n, da, di, k) ==
    IF k >= n \/ Skip(m) THEN m
    ELSE LET m1 == MoveConstruct(m, sa, si + k, da, di + k)
         IN IF m1.exc THEN Throw(destroy_n(Caught(m1), da, di, k))
            ELSE UninitMoveLoop(m1, sa, si, n, da, di, k + 1)

\* std::uninitialized_move_n(sa + si, n, da + di)
uninitialized_move_n(m, sa, si, n, da, di) == UninitMoveLoop(m, sa, si, n, da, di, 0)

RECURSIVE UninitValueLoop(_, _, _, _, _)
\* The loop of std::uninitialized_value_construct_n.
UninitValueLoop(m, a, i, n, k) ==
    IF k >= n \/ Skip(m) THEN m
    ELSE LET m1 == Construct(m, a, i + k, Dflt, TRUE)
         IN IF m1.exc THEN Throw(destroy_n(Caught(m1), a, i, k))
            ELSE UninitValueLoop(m1, a, i, n, k + 1)

uninitialized_value_construct_short(m, a, i, n) == UninitValueLoop(m, a, i, n - 1, 0)

\* std::uninitialized_value_construct_n(a + i, n)
uninitialized_value_construct_n(m, a, i, n) == UninitValueLoop(m, a, i, n, 0)

std_copy_first(m, sa, si, n, da, di) ==
    IF n <= 0 \/ Skip(m) THEN m ELSE CopyAssign(m, sa, si, da, di)

RECURSIVE std_copy(_, _, _, _, _, _)
\* std::copy(sa + si, sa + si + n, da + di): element-wise copy assignment.
std_copy(m, sa, si, n, da, di) ==
    IF n <= 0 \/ Skip(m) THEN m
    ELSE std_copy(CopyAssign(m, sa, si, da, di), sa, si + 1, n - 1, da, di + 1)

RECURSIVE std_copy_list(_, _, _, _)
\* std::copy(list.begin(), list.end(), da): the elements of an
\* initializer list assigned to the cells from k - 1 on.
std_copy_list(m, list, da, k) ==
    IF k > Len(list) \/ Skip(m) THEN m
    ELSE std_copy_list(AssignVal(m, da, k - 1, list[k], TRUE), list, da, k + 1)

std_move_one(m, a, first, lst, d_first) ==
    IF first >= lst \/ Skip(m) THEN m ELSE MoveAssign(m, a, first, a, d_first)

RECURSIVE std_move(_, _, _, _, _)
\* std::move(a + first, a + last, a + d_first): forward move assignment.
std_move(m, a, first, lst, d_first) ==
    IF first >= lst \/ Skip(m) THEN m
    ELSE std_move(MoveAssign(m, a, first, a, d_first), a, first + 1, lst, d_first + 1)

RECURSIVE move_backward_from(_, _, _, _, _)
move_backward_from(m, a, first, lst, d_last) ==
    IF first >= lst \/ Skip(m) THEN m
    ELSE move_backward_from(MoveAssign(m, a, lst - 1, a, d_last - 1),
                            a, first, lst - 1, d_last - 1)

move_backward_short(m, a, first, lst, d_last) ==
    move_backward_from(m, a, first + 1, lst, d_last)

\* std::move_backward(a + first, a + last, a + d_last)
move_backward(m, a, first, lst, d_last) == move_backward_from(m, a, first, lst, d_last)

\* The test of the if constexpr: move when a move cannot throw or T cannot
\* be copied, copy otherwise.
UseMove == T.nothrow_move \/ ~T.copyable

\* The transfer of n elements into a new block.
Transfer(m, sa, si, n, da, di) ==
    IF UseMove THEN uninitialized_move_n(m, sa, si, n, da, di)
    ELSE uninitialized_copy_n(m, sa, si, n, da, di)

GrowthCapacity_plus_one(capacity, size) == Max(capacity + 1, size + 1)

\* std::max(Capacity() * 2, size_ + 1)
GrowthCapacity(capacity, size) == Max(capacity * 2, size + 1)

\* The argument of PushBack, Insert, EmplaceBack and Emplace: a value of the
\* caller's (v) or a reference to the element in cell i of block a.
ArgVal(m, arg) ==
    IF ~arg.self THEN arg.v
    ELSE IF Addressable(m, arg.a, arg.i) THEN ReadVal(m, arg.a, arg.i)
    ELSE Indet

\* ------------------------------------------------------- Vector<T>: members
Mem(a, n) == [buffer_ |-> a, capacity_ |-> n]

\* Vector(): the object t with no block and no elements.
VectorDefault(m, t) ==
    [m EXCEPT !.vec[t] = [alive |-> TRUE, data_ |-> EmptyRaw, size_ |-> 0]]

\* Vector(size_t size): data_(size), size_(size), then the elements are
\* value-initialized; ~RawMemory releases the block when that throws.
VectorSize(m, t, size) ==
    LET m1 == Allocate(m, size)
        m2 == uninitialized_value_construct_n(m1, m1.r, 0, size)
    IN IF Skip(m1) THEN m1
       ELSE IF Skip(m2) THEN Deallocate(m2, m1.r)
       ELSE [m2 EXCEPT !.vec[t] = [alive |-> TRUE, data_ |-> Mem(m1.r, size),
                                   size_ |-> size]]

VectorCopy_shallow(m, t, other) ==
    [m EXCEPT !.vec[t] = [alive |-> TRUE, data_ |-> m.vec[other].data_,
                          size_ |-> m.vec[other].size_]]

\* Vector(const Vector& other)
VectorCopy(m, t, other) ==
    LET o == m.vec[other]
        m1 == Allocate(m, o.size_)
        m2 == uninitialized_copy_n(m1, o.data_.buffer_, 0, o.size_, m1.r, 0)
    IN IF Skip(m1) THEN m1
       ELSE IF Skip(m2) THEN Deallocate(m2, m1.r)
       ELSE [m2 EXCEPT !.vec[t] = [alive |-> TRUE, data_ |-> Mem(m1.r, o.size_),
                                   size_ |-> o.size_]]

VectorMove_shared(m, t, other) ==
    [m EXCEPT !.vec[t] = [alive |-> TRUE, data_ |-> m.vec[other].data_,
                          size_ |-> m.vec[other].size_]]

\* Vector(Vector&& other): data_(std::move(other.data_)) swaps an empty
\* RawMemory with other's; size_(std::move(other.size_)) copies the number.
VectorMove(m, t, other) ==
    LET o == m.vec[other]
        sw == RawMemory_Swap(EmptyRaw, o.data_)
    IN [m EXCEPT !.vec[t] = [alive |-> TRUE, data_ |-> sw[1], size_ |-> o.size_],
                 !.vec[other].data_ = sw[2]]

\* Vector(std::initializer_list<T> list): std::copy into the new block.
VectorList(m, t, list) ==
    LET m1 == Allocate(m, Len(list))
        m2 == std_copy_list(m1, list, m1.r, 1)
    IN IF Skip(m1) THEN m1
       ELSE IF Skip(m2) THEN Deallocate(m2, m1.r)
       ELSE [m2 EXCEPT !.vec[t] = [alive |-> TRUE, data_ |-> Mem(m1.r, Len(list)),
                                   size_ |-> Len(list)]]

\* ~Vector() and then ~RawMemory()
Destructor(m, t) ==
    LET v == m.vec[t]
        m1 == IF v.data_.buffer_ # nullptr
              THEN destroy_n(m, v.data_.buffer_, 0, v.size_) ELSE m
        m2 == Deallocate(m1, v.data_.buffer_)
    IN IF Skip(m2) THEN m2 ELSE [m2 EXCEPT !.vec[t] = NoVector]

Reserve_destroy_first(m, t, new_capacity) ==
    LET v == m.vec[t]
        m1 == destroy_n(m, v.data_.buffer_, 0, v.size_)
        m2 == Allocate(m1, new_capacity)
    IN IF Skip(m) \/ new_capacity <= v.data_.capacity_ THEN m
       ELSE IF Skip(m2) THEN m2
       ELSE Deallocate([m2 EXCEPT !.vec[t].data_ = Mem(m2.r, new_capacity)],
                       v.data_.buffer_)

ReserveNoop_strict(new_capacity, capacity) == new_capacity < capacity

\* The early return of Reserve.
ReserveNoop(new_capacity, capacity) == new_capacity <= capacity

\* Reserve(size_t new_capacity)
Reserve(m, t, new_capacity) ==
    LET v == m.vec[t]
        m1 == Allocate(m, new_capacity)
        new_data == Mem(m1.r, new_capacity)
        m2 == Transfer(m1, v.data_.buffer_, 0, v.size_, new_data.buffer_, 0)
        m3 == destroy_n(m2, v.data_.buffer_, 0, v.size_)
        sw == RawMemory_Swap(v.data_, new_data)
    IN IF Skip(m) \/ ReserveNoop(new_capacity, v.data_.capacity_) THEN m
       ELSE IF Skip(m1) THEN m1
       ELSE IF Skip(m3) THEN Deallocate(m3, new_data.buffer_)
       ELSE Deallocate([m3 EXCEPT !.vec[t].data_ = sw[1]], sw[2].buffer_)

\* Resize(size_t new_size)
Resize(m, t, new_size) ==
    LET v == m.vec[t]
        m1 == IF new_size < v.size_
              THEN destroy_n(m, v.data_.buffer_, new_size, v.size_ - new_size)
              ELSE IF new_size > v.size_
              THEN LET mr == Reserve(m, t, new_size)
                   IN uninitialized_value_construct_n(
                          mr, mr.vec[t].data_.buffer_, v.size_, new_size - v.size_)
              ELSE m
    IN IF Skip(m1) THEN m1 ELSE [m1 EXCEPT !.vec[t].size_ = new_size]

\* PopBack()
PopBack(m, t) ==
    LET v == m.vec[t]
        m1 == destroy_n(m, v.data_.buffer_, v.size_ - 1, 1)
    IN IF Skip(m1) THEN m1 ELSE [m1 EXCEPT !.vec[t].size_ = v.size_ - 1]

EmplaceBack_reserve_first(m, t, arg) ==
    LET v == m.vec[t]
        n == v.size_
        m1 == IF v.data_.capacity_ > n THEN m
              ELSE Reserve(m, t, GrowthCapacity(v.data_.capacity_, n))
        m2 == Construct(m1, m1.vec[t].data_.buffer_, n, ArgVal(m1, arg), TRUE)
    IN IF Skip(m2) THEN m2
       ELSE [m2 EXCEPT !.vec[t].size_ = n + 1,
                       !.it = <<m1.vec[t].data_.buffer_, n>>]

\* T& EmplaceBack(Types&&... values); returns data_[size_ - 1].
EmplaceBack(m, t, arg) ==
    LET v == m.vec[t]
        n == v.size_
        \* spare capacity
        s1 == Construct(m, v.data_.buffer_, n, ArgVal(m, arg), TRUE)
        \* reallocation
        new_capacity == GrowthCapacity(v.data_.capacity_, n)
        m1 == Allocate(m, new_capacity)
        new_data == Mem(m1.r, new_capacity)
        m2 == Construct(m1, new_data.buffer_, n, ArgVal(m1, arg), TRUE)
        m3 == Transfer(m2, v.data_.buffer_, 0, n, new_data.buffer_, 0)
        m4 == IF m3.exc /\ ~m2.exc
              THEN Throw(destroy_n(Caught(m3), new_data.buffer_, 0, n + 1))
              ELSE m3
        m5 == destroy_n(m4, v.data_.buffer_, 0, n)
        sw == RawMemory_Swap(v.data_, new_data)
    IN IF Skip(m) THEN m
       ELSE IF v.data_.capacity_ > n
       THEN IF Skip(s1) THEN s1
            ELSE [s1 EXCEPT !.vec[t].size_ = n + 1, !.it = <<v.data_.buffer_, n>>]
       ELSE IF Skip(m1) THEN m1
       ELSE IF Skip(m5) THEN Deallocate(m5, new_data.buffer_)
       ELSE Deallocate([m5 EXCEPT !.vec[t].size_ = n + 1,
                                  !.vec[t].data_ = sw[1],
                                  !.it = <<sw[1].buffer_, n>>],
                       sw[2].buffer_)

\* void PushBack(U&& value)
PushBack(m, t, arg) == EmplaceBack(m, t, arg)

\* iterator Emplace(const_iterator pos, Args&&... args), pos = begin() + offset;
\* returns std::next(begin(), offset).
Emplace(m, t, offset, arg) ==
    LET v == m.vec[t]
        n == v.size_
        buf == v.data_.buffer_
        \* spare capacity, pos != end(): value_to_emplace, then the shift
        t1 == Fallible(m, TRUE)
        value_to_emplace == ArgVal(m, arg)
        t2 == uninitialized_move_n(t1, buf, n - 1, 1, buf, n)
        t3 == move_backward(t2, buf, offset, n - 1, n)
        t4 == AssignVal(t3, buf, offset, value_to_emplace, ~T.nothrow_move)
        \* spare capacity, pos == end()
        e1 == Construct(m, buf, n, ArgVal(m, arg), TRUE)
        s1 == IF offset # n THEN t4 ELSE e1
        \* reallocation
        new_capacity == GrowthCapacity(v.data_.capacity_, n)
        m1 == Allocate(m, new_capacity)
        new_data == Mem(m1.r, new_capacity)
        m2 == Construct(m1, new_data.buffer_, offset, ArgVal(m1, arg), TRUE)
        m3 == Transfer(Transfer(m2, buf, 0, offset, new_data.buffer_, 0),
                       buf, offset, n - offset, new_data.buffer_, offset + 1)
        m4 == IF m3.exc /\ ~m2.exc
              THEN Throw(destroy_n(Caught(m3), new_data.buffer_, 0, n + 1))
              ELSE m3
        m5 == destroy_n(m4, buf, 0, n)
        sw == RawMemory_Swap(v.data_, new_data)
    IN IF Skip(m) THEN m
       ELSE IF v.data_.capacity_ > n
       THEN IF Skip(s1) THEN s1
            ELSE [s1 EXCEPT !.vec[t].size_ = n + 1, !.it = <<buf, offset>>]
       ELSE IF Skip(m1) THEN m1
       ELSE IF Skip(m5) THEN Deallocate(m5, new_data.buffer_)
       ELSE Deallocate([m5 EXCEPT !.vec[t].size_ = n + 1,
                                  !.vec[t].data_ = sw[1],
                                  !.it = <<sw[1].buffer_, offset>>],
                       sw[2].buffer_)

Insert_before(m, t, offset, arg) == Emplace(m, t, Max(offset - 1, 0), arg)

\* iterator Insert(const_iterator pos, U&& value)
Insert(m, t, offset, arg) == Emplace(m, t, offset, arg)

\* iterator Erase(const_iterator pos), pos = begin() + offset
Erase(m, t, offset) ==
    LET v == m.vec[t]
        buf == v.data_.buffer_
        m1 == IF offset # v.size_ - 1
              THEN std_move(m, buf, offset + 1, v.size_, offset) ELSE m
        m2 == destroy_n(m1, buf, v.size_ - 1, 1)
    IN IF Skip(m2) THEN m2
       ELSE [m2 EXCEPT !.vec[t].size_ = v.size_ - 1, !.it = <<buf, offset>>]

\* void Swap(Vector& other)
Swap(m, t, other) ==
    LET v == m.vec[t]
        o == m.vec[other]
        sw == RawMemory_Swap(v.data_, o.data_)
    IN IF Skip(m) \/ v.data_.buffer_ = o.data_.buffer_ THEN m
       ELSE [m EXCEPT !.vec[t].data_ = sw[1], !.vec[other].data_ = sw[2],
                      !.vec[t].size_ = o.size_, !.vec[other].size_ = v.size_]

\* Vector& operator=(const Vector& rhs)
CopyAssignment(m, t, rhs) ==
    LET v == m.vec[t]
        r == m.vec[rhs]
        buf == v.data_.buffer_
        rbuf == r.data_.buffer_
        \* Vector rhs_copy(rhs); Swap(rhs_copy); and rhs_copy goes out of scope
        c1 == VectorCopy(m, rhs_copy, rhs)
        c2 == IF Skip(c1) THEN c1 ELSE Destructor(Swap(c1, t, rhs_copy), rhs_copy)
        \* the block is kept
        g1 == uninitialized_copy_n(std_copy(m, rbuf, 0, v.size_, buf, 0),
                                   rbuf, v.size_, r.size_ - v.size_, buf, v.size_)
        k1 == std_copy(m, rbuf, 0, r.size_, buf, 0)
        k2 == IF v.size_ > r.size_
              THEN destroy_n(k1, buf, r.size_, v.size_ - r.size_) ELSE k1
        a1 == IF r.size_ > v.size_ THEN g1 ELSE k2
    IN IF Skip(m) \/ t = rhs THEN m
       ELSE IF r.size_ > v.data_.capacity_ THEN c2
       ELSE IF Skip(a1) THEN a1 ELSE [a1 EXCEPT !.vec[t].size_ = r.size_]

\* Vector& operator=(Vector&& rhs): data_ = std::move(rhs.data_) swaps the
\* two RawMemory objects; size_ = std::move(rhs.size_) copies the number.
MoveAssignment(m, t, rhs) ==
    LET v == m.vec[t]
        r == m.vec[rhs]
        sw == RawMemory_Swap(v.data_, r.data_)
    IN IF Skip(m) \/ t = rhs THEN m
       ELSE [m EXCEPT !.vec[t].data_ = sw[1], !.vec[rhs].data_ = sw[2],
                      !.vec[t].size_ = r.size_]

\* ---------------------------------------------------------------- actions
\* Initializer lists a caller writes.
Lists == { <<>>, <<1>>, <<0, 1>>, <<1, 0>> }

Value(x) == [self |-> FALSE, a |-> nullptr, i |-> 0, v |-> x]
\* v[i] of the vector t, passed by reference; .v is its value at the call.
Element(t, i) ==
    [self |-> TRUE, a |-> vec[t].data_.buffer_, i |-> i,
     v |-> ArgVal(Start(0), [self |-> TRUE, a |-> vec[t].data_.buffer_, i |-> i])]
ValueArgs == {Value(x) : x \in Vals}
\* operator[] asserts index < size_; a reference is copied from.
ElementArgs(t) ==
    {Element(t, i) : i \in {j \in 0 .. MaxCap : j < vec[t].size_ /\ T.copyable}}

Alive(t) == vec[t].alive
Capacity(t) == vec[t].data_.capacity_
Size(t) == vec[t].size_

\* only: t was made by Vector() and only appended to since; log: the values
\* of the appends that returned; failed: an append threw.
NoHist == [only |-> FALSE, failed |-> FALSE, log |-> <<>>]
\* hist after an operation on the vectors S that is no append.
Touched(S) == [i \in Slots |-> IF i \in S THEN NoHist ELSE hist[i]]
\* hist after Vector() made t.
Created(t) == [hist EXCEPT ![t] = [only |-> TRUE, failed |-> FALSE, log |-> <<>>]]
\* hist after an append of the value x to t that ended as m.
Appended(m, t, x) ==
    IF ~hist[t].only THEN hist
    ELSE IF m.exc THEN [hist EXCEPT ![t].failed = TRUE]
    ELSE [hist EXCEPT ![t].log = Append(@, x)]

\* Blocks are told apart only by comparing addresses, so a state is kept up
\* to a renaming of the blocks: the block of vector 1 is named 1, the block
\* of vector 2 is named 2, and the other addresses keep their order.
Renamed(m) ==
    LET b1 == m.vec[1].data_.buffer_
        b2 == m.vec[2].data_.buffer_
        two == b2 # nullptr /\ b2 # b1
        \* the new name of the address x
        New(x) == IF x = nullptr THEN x
                  ELSE IF x = b1 THEN 1
                  ELSE IF x = b2 THEN 2
                  ELSE x
        \* the address that gets the name a
        Old(a) ==
            IF a = 1 /\ b1 # nullptr THEN b1
            ELSE IF a = 2 /\ two THEN b2
            ELSE LET free == {x \in Addrs : ~(x = 1 /\ b1 # nullptr) /\ ~(x = 2 /\ two)}
                     rest == {x \in Addrs : x # b1 /\ ~(two /\ x = b2)}
                     k == Cardinality({x \in free : x < a})
                 IN CHOOSE x \in rest : Cardinality({y \in rest : y < x}) = k
    IN [vec |-> [i \in AllSlots |-> [m.vec[i] EXCEPT !.data_.buffer_ = New(@)]],
        heap |-> [a \in Addrs |-> m.heap[Old(a)]]]

\* The caller tells the two Vector objects apart only by their names, so a
\* state is also kept up to an exchange of the two: the one that is alive, has
\* the larger capacity, the larger size, ... is named 1.
SlotKey(m, h, mv, i) ==
    LET v == m.vec[i]
        b(x) == IF x THEN 1 ELSE 0
    IN ((((b(v.alive) * 8 + v.data_.capacity_) * 8 + v.size_) * 2
            + b(i \in mv)) * 2 + b(h[i].only)) * 2 + b(h[i].failed)

OtherSlot(i) == IF i = 1 THEN 2 ELSE IF i = 2 THEN 1 ELSE i

\* The state m with the record h of the appends and the moved-from vectors
\* mv, under the names it is kept by.
Named(m, h, mv) ==
    LET exchange == SlotKey(m, h, mv, 2) > SlotKey(m, h, mv, 1)
        S(i) == IF exchange THEN OtherSlot(i) ELSE i
        r == Renamed([m EXCEPT !.vec = [i \in AllSlots |-> m.vec[S(i)]]])
    IN [vec |-> r.vec, heap |-> r.heap,
        hist |-> [i \in Slots |-> h[S(i)]],
        moved |-> {S(i) : i \in mv}]

WithinBounds(m) ==
    /\ \A i \in Slots : m.vec[i].data_.capacity_ <= MaxCap
    /\ m.vec[1].data_.capacity_ + m.vec[2].data_.capacity_ <= MaxCells

\* The state after the process has stopped.
Halted ==
    /\ vec' = [i \in AllSlots |-> NoVector]
    /\ heap' = [a \in Addrs |-> <<>>]
    /\ hist' = [i \in Slots |-> NoHist]
    /\ moved' = {}

\* The operation ends: it returns or throws with the state m, the record h
\* of the appends and the moved-from vectors mv.  Where it met undefined
\* behaviour the build either ran through it, and m is the state it left,
\* or the process stopped; in both cases nothing more is run.
Commit(m, h, mv) ==
    /\ m.f = 0
    /\ WithinBounds(m)
    /\ \/ /\ ~m.dead
          /\ LET s == Named(m, h, mv)
             IN /\ vec' = s.vec
                /\ heap' = s.heap
                /\ hist' = s.hist
                /\ moved' = s.moved
       \/ /\ m.ub # {}
          /\ Halted
    /\ ub' = m.ub
    /\ UNCHANGED T

\* Nothing runs after undefined behaviour.
Running == ub = {}
\* A caller does nothing with a moved-from vector but destroy it or assign
\* to it.
Usable(t) == Alive(t) /\ t \notin moved

\* The steps that can throw are numbered from 1; no operation has more than
\* n of them.
Fails(n) == {fl \in FailPoints : fl <= n}

Call_Vector ==
    \E t \in Slots :
        /\ Running /\ ~Alive(t)
        /\ Commit(VectorDefault(Start(0), t), Created(t), moved)

Call_VectorSize ==
    \E t \in Slots, n \in 0 .. MaxCap :
        /\ Running /\ ~Alive(t)
        /\ \E fl \in Fails(n + 1) :
              Commit(VectorSize(Start(fl), t, n), Touched({t}), moved)

Call_VectorCopy ==
    \E t \in Slots, o \in Slots :
        /\ Running /\ ~Alive(t) /\ Usable(o) /\ T.copyable
        /\ \E fl \in Fails(Size(o) + 1) :
              Commit(VectorCopy(Start(fl), t, o), Touched({t}), moved)

Call_VectorMove ==
    \E t \in Slots, o \in Slots :
        /\ Running /\ ~Alive(t) /\ Usable(o)
        /\ Commit(VectorMove(Start(0), t, o), Touched({t, o}), moved \cup {o})

Call_VectorList ==
    \E t \in Slots, list \in Lists :
        /\ Running /\ ~Alive(t) /\ T.copyable
        /\ \E fl \in Fails(Len(list) + 1) :
              Commit(VectorList(Start(fl), t, list), Touched({t}), moved)

Call_Destructor ==
    \E t \in Slots :
        /\ Running /\ Alive(t)
        /\ Commit(Destructor(Start(0), t), Touched({t}), moved \ {t})

Call_Reserve ==
    \E t \in Slots, n \in 0 .. MaxCap :
        /\ Running /\ Usable(t)
        /\ \E fl \in Fails(Size(t) + 1) :
              Commit(Reserve(Start(fl), t, n), Touched({t}), moved)

Call_Resize ==
    \E t \in Slots, n \in 0 .. MaxCap :
        /\ Running /\ Usable(t)
        /\ \E fl \in Fails(Size(t) + n + 1) :
              Commit(Resize(Start(fl), t, n), Touched({t}), moved)

Call_PushBack ==
    \E t \in Slots :
        /\ Running /\ Usable(t)
        /\ \E fl \in Fails(Size(t) + 2), arg \in ValueArgs \cup ElementArgs(t) :
              LET m == PushBack(Start(fl), t, arg)
              IN Commit(m, Appended(m, t, arg.v), moved)

Call_PopBack ==
    \E t \in Slots :
        /\ Running /\ Usable(t) /\ Size(t) > 0
        /\ Commit(PopBack(Start(0), t), Touched({t}), moved)

Call_EmplaceBack ==
    \E t \in Slots, arg \in ValueArgs :
        /\ Running /\ Usable(t)
        /\ \E fl \in Fails(Size(t) + 2) :
              LET m == EmplaceBack(Start(fl), t, arg)
              IN Commit(m, Appended(m, t, arg.v), moved)

Call_Emplace ==
    \E t \in Slots, arg \in ValueArgs, off \in 0 .. MaxCap :
        /\ Running /\ Usable(t) /\ off <= Size(t)
        /\ \E fl \in Fails(Size(t) + 2) :
              Commit(Emplace(Start(fl), t, off, arg), Touched({t}), moved)

Call_Insert ==
    \E t \in Slots, off \in 0 .. MaxCap :
        /\ Running /\ Usable(t) /\ off <= Size(t)
        /\ \E fl \in Fails(Size(t) + 2), arg \in ValueArgs \cup ElementArgs(t) :
              Commit(Insert(Start(fl), t, off, arg), Touched({t}), moved)

Call_Erase ==
    \E t \in Slots, off \in 0 .. MaxCap :
        /\ Running /\ Usable(t) /\ off < Size(t)
        /\ \E fl \in Fails(Size(t)) :
              Commit(Erase(Start(fl), t, off), Touched({t}), moved)

Call_Swap ==
    \E t \in Slots, o \in Slots :
        /\ Running /\ Usable(t) /\ Usable(o)
        /\ Commit(Swap(Start(0), t, o), Touched({t, o}), moved)

Call_CopyAssignment ==
    \E t \in Slots, o \in Slots :
        /\ Running /\ Alive(t) /\ Usable(o) /\ T.copyable
        /\ \E fl \in Fails(Size(o) + 1) :
              LET m == CopyAssignment(Start(fl), t, o)
              IN Commit(m, Touched({t}), IF m.exc THEN moved ELSE moved \ {t})

Call_MoveAssignment ==
    \E t \in Slots, o \in Slots :
        /\ Running /\ Alive(t) /\ Usable(o)
        /\ Commit(MoveAssignment(Start(0), t, o), Touched({t, o}),
                  IF t = o THEN moved ELSE (moved \ {t}) \cup {o})

Init ==
    /\ T \in TypeKinds
    /\ vec = [i \in AllSlots |-> NoVector]
    /\ heap = [a \in Addrs |-> <<>>]
    /\ ub = {}
    /\ hist = [i \in Slots |-> NoHist]
    /\ moved = {}

Next ==
    \/ Call_Vector
    \/ Call_VectorSize
    \/ Call_VectorCopy
    \/ Call_VectorMove
    \/ Call_VectorList
    \/ Call_Destructor
    \/ Call_Reserve
    \/ Call_Resize
    \/ Call_PushBack
    \/ Call_PopBack
    \/ Call_EmplaceBack
    \/ Call_Emplace
    \/ Call_Insert
    \/ Call_Erase
    \/ Call_Swap
    \/ Call_CopyAssignment
    \/ Call_MoveAssignment

Spec == Init /\ [][Next]_vars

\* ------------------------------------------------------------- properties
\* The state as an operation finds it.
Now == Start(0)

\* The cells of the block the vector t owns.
Block(m, t) ==
    IF m.vec[t].data_.buffer_ = nullptr THEN <<>>
    ELSE m.heap[m.vec[t].data_.buffer_]

LiveCells(m, t) ==
    Cardinality({k \in 1 .. Len(Block(m, t)) : Block(m, t)[k] # Raw})

\* What operator[] reads at the indices 0 .. Size() - 1.
Contents(m, t) ==
    [k \in 1 .. m.vec[t].size_ |->
        IF k <= Len(Block(m, t)) THEN Block(m, t)[k] ELSE Indet]

\* The block has Capacity() cells, the first Size() live and the rest raw.
Layout(m, t) ==
    /\ Len(Block(m, t)) = m.vec[t].data_.capacity_
    /\ m.vec[t].size_ <= m.vec[t].data_.capacity_
    /\ \A k \in 1 .. Len(Block(m, t)) :
          (k <= m.vec[t].size_) <=> (Block(m, t)[k] # Raw)

\* C1: after any sequence of public operations every Vector object, the
\* source of a move included, has Size() <= Capacity().
C1_SizeAtMostCapacity ==
    \A t \in Slots : Alive(t) => Size(t) <= Capacity(t)

\* C2: after every completed operation the cells [0, Size()) of every
\* vector's block are live and the cells [Size(), Capacity()) are raw, and
\* no operation assigned to or destroyed a raw cell on the way.
C2_LiveThenRaw ==
    /\ ub \cap {"assign_raw", "destroy_raw"} = {}
    /\ \A t \in Slots : Alive(t) => Layout(Now, t)

\* C3: the source of a move construction or a move assignment reports as
\* many elements as its block has live cells, and destroying it touches no
\* raw cell and no null block and loses no live element.
C3_MovedFromValid ==
    \A t \in Slots :
        (Alive(t) /\ t \in moved) =>
            /\ Size(t) = LiveCells(Now, t)
            /\ Destructor(Now, t).ub = {}
            /\ ~Destructor(Now, t).leak

\* What the target t of a move from o must be in the state m the move left.
MoveGives(m, t, o) ==
    /\ m.vec[t].size_ = Size(o)
    /\ m.vec[t].data_.capacity_ = Capacity(o)
    /\ Contents(m, t) = Contents(Now, o)
    /\ m.vec[t].data_.buffer_ = vec[o].data_.buffer_
    /\ m.heap = heap
    /\ m.na = 0 /\ m.nc = 0 /\ m.nd = 0

\* C4: move construction of t from o, and move assignment of o to another
\* vector t, give t the size, the capacity and the elements of o in order;
\* the block changes owner and no element is constructed, assigned or
\* destroyed.
C4_MoveTransfersBlock ==
    \A t \in Slots, o \in Slots :
        (Running /\ Usable(o) /\ t # o) =>
            IF Alive(t) THEN MoveGives(MoveAssignment(Now, t, o), t, o)
            ELSE MoveGives(VectorMove(Now, t, o), t, o)

\* A vector was moved from while it held two different elements and spare
\* capacity, and the other vector holds them now.
C4_Witness ==
    \E t \in Slots, o \in Slots :
        /\ o \in moved /\ Usable(t) /\ ub = {}
        /\ Size(o) = 2 /\ Size(t) = 2 /\ Capacity(t) = 3
        /\ Contents(Now, t) = <<1, 0>>

\* The outcomes of an append of arg to t in which step fl throws.
AppendOutcomes(t, arg, fl) ==
    {PushBack(Start(fl), t, arg), EmplaceBack(Start(fl), t, arg)}

\* C5: an append to a full vector that fails in the construction of the new
\* element (step 2, after the allocation) or in a copy of an existing
\* element (a later step, for a type that is copied) ends in one way: the
\* exception leaves the call with the size, the capacity and the elements
\* as they were, and the new block is released after the elements
\* constructed in it, and nothing else, were destroyed.
C5_AppendFailureKeepsVector ==
    \A t \in Slots :
        (Running /\ Usable(t) /\ Size(t) = Capacity(t)) =>
            \A arg \in ValueArgs \cup ElementArgs(t), fl \in Fails(Size(t) + 2) :
                \A m \in AppendOutcomes(t, arg, fl) :
                    (m.f = 0 /\ m.exc /\ (fl = 2 \/ (fl > 2 /\ T.copyable))) =>
                        /\ ~m.dead /\ m.ub = {}
                        /\ m.vec[t] = vec[t]
                        /\ Contents(m, t) = Contents(Now, t)
                        /\ m.heap = heap
                        /\ ~m.leak

\* C6: after any sequence of PushBack and EmplaceBack calls on a vector that
\* was empty, failing calls among them, the vector holds the values of the
\* calls that succeeded, in call order, and Size() is their number.
C6_AppendsInCallOrder ==
    \A t \in Slots :
        (Alive(t) /\ hist[t].only) =>
            /\ Size(t) = Len(hist[t].log)
            /\ Contents(Now, t) = hist[t].log

\* The outcomes of the calls that add one element to t: at the end, or at
\* the offset off, with step fl throwing.
AddOutcomes(t, arg, off, fl) ==
    {PushBack(Start(fl), t, arg), EmplaceBack(Start(fl), t, arg),
     Emplace(Start(fl), t, off, arg), Insert(Start(fl), t, off, arg)}

\* C7: no PushBack, EmplaceBack, Emplace or Insert lowers Capacity(); one
\* changes it only when Size() = Capacity() at the call, and then to
\* max(2 * Capacity(), Size() + 1); one that returns from a full vector does
\* change it.  A vector that was empty and only appended to has a capacity
\* of 0, 1, 2, 4 or 8.
C7_CapacityDoubles ==
    /\ \A t \in Slots :
          (Running /\ Usable(t)) =>
              \A arg \in ValueArgs \cup ElementArgs(t), off \in 0 .. Size(t),
                 fl \in Fails(Size(t) + 2) :
                  \A m \in AddOutcomes(t, arg, off, fl) :
                      (m.f = 0 /\ ~m.dead) =>
                          LET c == m.vec[t].data_.capacity_
                          IN /\ c >= Capacity(t)
                             /\ c # Capacity(t) =>
                                   /\ Size(t) = Capacity(t)
                                   /\ c = Max(2 * Capacity(t), Size(t) + 1)
                             /\ (~m.exc /\ Size(t) = Capacity(t)) => c # Capacity(t)
    /\ \A t \in Slots :
          (Alive(t) /\ hist[t].only) => Capacity(t) \in {0, 1, 2, 4, 8}

\* A full vector of two elements grows to four cells by an insertion in
\* the middle and by an append, and one with a spare cell keeps its block.
C7_Witness ==
    \E t \in Slots, o \in Slots :
        /\ Running /\ Usable(t) /\ Size(t) = 2 /\ Capacity(t) = 2
        /\ Emplace(Now, t, 1, Value(1)).vec[t].data_.capacity_ = 4
        /\ PushBack(Now, t, Value(1)).vec[t].data_.capacity_ = 4
        /\ Usable(o) /\ Size(o) = 0 /\ Capacity(o) = 1
        /\ Insert(Now, o, 0, Value(1)).vec[o].data_.capacity_ = 1

\* The outcomes of the operations that change the vector t alone, from the
\* state m0.
MutatorOutcomes(m0, t) ==
    LET n == m0.vec[t].size_
        From(fl) == [m0 EXCEPT !.f = fl]
    IN UNION {
        {Reserve(From(fl), t, k) : k \in 0 .. MaxCap, fl \in Fails(n + 1)},
        {Resize(From(fl), t, k) : k \in 0 .. MaxCap, fl \in Fails(n + MaxCap + 1)},
        {EmplaceBack(From(fl), t, arg) : arg \in ValueArgs, fl \in Fails(n + 2)},
        {Emplace(From(fl), t, off, arg) :
            arg \in ValueArgs, off \in 0 .. n, fl \in Fails(n + 2)},
        {Erase(From(fl), t, off) :
            off \in {i \in 0 .. MaxCap : i < n}, fl \in Fails(n)},
        IF n > 0 THEN {PopBack(m0, t)} ELSE {},
        {Destructor(m0, t)} }

\* The operation that ended as m left the vector o as it was in m0.
Untouched(m0, m, o) ==
    m.f = 0 => (m.vec[o] = m0.vec[o] /\ Block(m, o) = Block(m0, o))

\* C8: the copy constructor gives t the size and the elements of o in
\* order, in a block of its own, and leaves o as it was; an operation on the
\* copy then leaves the original as it was, and one on the original the
\* copy; and so does every later one: no operation on one vector changes
\* the size, the capacity or an element of another.
C8_CopyIsDeep ==
    /\ \A t \in Slots, o \in Slots :
          (Running /\ ~Alive(t) /\ Usable(o) /\ T.copyable) =>
              LET c == VectorCopy(Now, t, o)
              IN /\ ~Skip(c)
                 /\ c.vec[t].size_ = Size(o)
                 /\ Contents(c, t) = Contents(Now, o)
                 /\ \/ c.vec[t].data_.buffer_ = nullptr
                    \/ c.vec[t].data_.buffer_ # c.vec[o].data_.buffer_
                 /\ c.vec[o] = vec[o]
                 /\ Block(c, o) = Block(Now, o)
                 /\ \A m \in MutatorOutcomes(c, t) : Untouched(c, m, o)
                 /\ \A m \in MutatorOutcomes(c, o) : Untouched(c, m, t)
    /\ \A t \in Slots, o \in Slots :
          (Running /\ Usable(t) /\ Alive(o) /\ t # o) =>
              \A m \in MutatorOutcomes(Now, t) : Untouched(Now, m, o)

\* The vector o holds two different elements; its copy t holds them in
\* another block; an insertion at the front of the copy changes the copy
\* alone, and the removal of the first element of o changes o alone.
C8_Witness ==
    \E t \in Slots, o \in Slots :
        /\ Running /\ T.copyable /\ ~Alive(t) /\ Usable(o)
        /\ Contents(Now, o) = <<0, 1>>
        /\ LET c == VectorCopy(Now, t, o)
               m == Insert(c, t, 0, Value(1))
               e == Erase(c, o, 0)
           IN /\ ~Skip(c) /\ Contents(c, t) = <<0, 1>>
              /\ c.vec[t].data_.buffer_ # c.vec[o].data_.buffer_
              /\ ~Skip(m) /\ Contents(m, t) = <<1, 0, 1>> /\ Contents(m, o) = <<0, 1>>
              /\ ~Skip(e) /\ Contents(e, o) = <<1>> /\ Contents(e, t) = <<0, 1>>

\* C9: a Reserve(k) that returns leaves Size() and the elements as they
\* were and makes Capacity() the larger of k and the old capacity; for
\* k <= Capacity() it allocates nothing and constructs, assigns and destroys
\* no element; and a second Reserve(k) changes nothing more.
C9_ReserveExact ==
    \A t \in Slots :
        (Running /\ Usable(t)) =>
            \A k \in 0 .. MaxCap + 1 :
                LET m == Reserve(Now, t, k)
                    again == Reserve(m, t, k)
                IN /\ ~Skip(m)
                   /\ m.vec[t].size_ = Size(t)
                   /\ Contents(m, t) = Contents(Now, t)
                   /\ m.vec[t].data_.capacity_ = Max(Capacity(t), k)
                   /\ Len(Block(m, t)) = Max(Capacity(t), k)
                   /\ k <= Capacity(t) =>
                         /\ m.na = 0 /\ m.nc = 0 /\ m.nd = 0
                         /\ m.vec = vec /\ m.heap = heap
                   /\ again = m

\* A vector of two different elements in a block of two cells: Reserve(3)
\* moves or copies them to a block of three cells, and Reserve(2) and
\* Reserve(1) do nothing.
C9_Witness ==
    \E t \in Slots :
        /\ Running /\ Usable(t) /\ Capacity(t) = 2
        /\ Contents(Now, t) = <<1, 0>>
        /\ LET m == Reserve(Now, t, 3)
           IN /\ m.na = 1 /\ m.nc = 2 /\ m.nd = 2
              /\ Contents(m, t) = <<1, 0>> /\ Len(Block(m, t)) = 3
        /\ Reserve(Now, t, 2).na = 0
        /\ Reserve(Now, t, 1).vec = vec

\* The sequence e with the value x put in before its element at offset p.
InsertAt(e, p, x) ==
    [k \in 1 .. Len(e) + 1 |->
        IF k <= p THEN e[k] ELSE IF k = p + 1 THEN x ELSE e[k - 1]]

\* C10: an Emplace or Insert of the value x at the offset p <= Size() that
\* returns leaves the elements before p, then x, then the elements from p
\* on, with Size() one larger, and returns the position p of the block the
\* vector has then; with a spare cell and without one.
C10_InsertAtOffset ==
    \A t \in Slots :
        (Running /\ Usable(t)) =>
            \A arg \in ValueArgs, p \in 0 .. Size(t) :
                \A m \in {Emplace(Now, t, p, arg), Insert(Now, t, p, arg)} :
                    /\ ~Skip(m)
                    /\ m.vec[t].size_ = Size(t) + 1
                    /\ Contents(m, t) = InsertAt(Contents(Now, t), p, arg.v)
                    /\ m.it = <<m.vec[t].data_.buffer_, p>>
                    /\ Layout(Now, t) => Layout(m, t)

\* A vector of two different elements and a spare cell takes a value at
\* the front by the shift; it is full then and takes the next one in the
\* middle by a new block.
C10_Witness ==
    \E t \in Slots :
        /\ Running /\ Usable(t) /\ Capacity(t) = 3
        /\ Contents(Now, t) = <<0, 1>>
        /\ LET m == Insert(Now, t, 0, Value(1))
               m2 == Emplace(m, t, 2, Value(0))
           IN /\ ~Skip(m) /\ Contents(m, t) = <<1, 0, 1>> /\ m.na = 0
              /\ m.it = <<vec[t].data_.buffer_, 0>>
              /\ ~Skip(m2) /\ Contents(m2, t) = <<1, 0, 0, 1>> /\ m2.na = 1
              /\ m2.it = <<m2.vec[t].data_.buffer_, 2>>
              /\ m2.vec[t].data_.buffer_ # vec[t].data_.buffer_

\* The outcomes of an insertion of arg at the end position of t in which
\* step fl throws.
InsertAtEndOutcomes(t, arg, fl) ==
    {Emplace(Start(fl), t, Size(t), arg), Insert(Start(fl), t, Size(t), arg)}

\* C11: Insert and Emplace at the offset Size() end as PushBack and
\* EmplaceBack of the same value do from the same state: the same size, the
\* same capacity and the same elements in order, with a spare cell and
\* without one, and a step that throws in the one throws in the other.
C11_InsertAtEndIsAppend ==
    \A t \in Slots :
        (Running /\ Usable(t)) =>
            \A arg \in ValueArgs \cup ElementArgs(t), fl \in Fails(Size(t) + 2) :
                \A a \in AppendOutcomes(t, arg, fl), i \in InsertAtEndOutcomes(t, arg, fl) :
                    /\ i.exc = a.exc /\ i.dead = a.dead /\ i.f = a.f
                    /\ i.vec[t].size_ = a.vec[t].size_
                    /\ i.vec[t].data_.capacity_ = a.vec[t].data_.capacity_
                    /\ Contents(i, t) = Contents(a, t)

\* A vector of two different elements and a spare cell takes a value at
\* the end position in its block, as by PushBack; it is full then and takes
\* the next one in a new block, as by EmplaceBack.
C11_Witness ==
    \E t \in Slots :
        /\ Running /\ Usable(t) /\ Capacity(t) = 3
        /\ Contents(Now, t) = <<1, 0>>
        /\ LET i == Insert(Now, t, 2, Value(1))
               a == PushBack(Now, t, Value(1))
               i2 == Emplace(i, t, 3, Value(0))
               a2 == EmplaceBack(a, t, Value(0))
           IN /\ ~Skip(i) /\ Contents(i, t) = <<1, 0, 1>> /\ i.na = 0
              /\ Contents(a, t) = <<1, 0, 1>>
              /\ ~Skip(i2) /\ Contents(i2, t) = <<1, 0, 1, 0>> /\ i2.na = 1
              /\ i2.vec[t].data_.capacity_ = 6
              /\ Contents(a2, t) = <<1, 0, 1, 0>> /\ a2.vec[t].data_.capacity_ = 6

\* The sequence e without its element at offset p.
RemoveAt(e, p) ==
    [k \in 1 .. Len(e) - 1 |-> IF k <= p THEN e[k] ELSE e[k + 1]]

\* C12: an Erase at the offset p < Size() that returns leaves the elements
\* before p and then those after p, in order, with Size() one smaller and
\* the block and Capacity() as they were; it destroys one cell, the last one
\* the vector had, and returns the position p.
C12_EraseAtOffset ==
    \A t \in Slots :
        (Running /\ Usable(t)) =>
            \A p \in {i \in 0 .. MaxCap : i < Size(t)} :
                LET m == Erase(Now, t, p)
                IN /\ ~Skip(m) /\ m.ub = {}
                   /\ m.vec[t].size_ = Size(t) - 1
                   /\ m.vec[t].data_ = vec[t].data_
                   /\ Contents(m, t) = RemoveAt(Contents(Now, t), p)
                   /\ m.nd = 1
                   /\ \A k \in 1 .. Len(Block(Now, t)) :
                         Block(m, t)[k] = Raw <=>
                             (k = Size(t) \/ Block(Now, t)[k] = Raw)
                   /\ m.it = <<vec[t].data_.buffer_, p>>

\* A vector of three elements loses the first one by the shift of the other
\* two, and the last one with no shift.
C12_Witness ==
    \E t \in Slots :
        /\ Running /\ Usable(t) /\ Contents(Now, t) = <<1, 0, 1>>
        /\ LET m == Erase(Now, t, 0)
               e == Erase(Now, t, 2)
           IN /\ ~Skip(m) /\ Contents(m, t) = <<0, 1>> /\ m.nd = 1 /\ m.nc = 2
              /\ Block(m, t)[3] = Raw
              /\ ~Skip(e) /\ Contents(e, t) = <<1, 0>> /\ e.nd = 1 /\ e.nc = 0
              /\ e.it = <<vec[t].data_.buffer_, 2>>

\* C13: Resize(k) on a vector of n elements returns with Size() = k.  For
\* k > n the elements are the old ones followed by k - n value-initialized
\* ones; for k < n they are the first k, the block and Capacity() are as
\* they were and the cells k .. n - 1, and no others, are destroyed, once
\* each; for k = n nothing changes.
C13_ResizeContents ==
    \A t \in Slots :
        (Running /\ Usable(t)) =>
            \A k \in 0 .. MaxCap + 1 :
                LET m == Resize(Now, t, k)
                    n == Size(t)
                    e == Contents(Now, t)
                IN /\ ~Skip(m) /\ m.ub = {}
                   /\ m.vec[t].size_ = k
                   /\ k > n => Contents(m, t) = e \o [j \in 1 .. k - n |-> Dflt]
                   /\ k < n =>
                         /\ Contents(m, t) = SubSeq(e, 1, k)
                         /\ m.vec[t].data_ = vec[t].data_
                         /\ m.nd = n - k /\ m.nc = 0 /\ m.na = 0
                         /\ \A j \in 1 .. Len(Block(Now, t)) :
                               Block(m, t)[j] = Raw <=>
                                   ((j > k /\ j <= n) \/ Block(Now, t)[j] = Raw)
                   /\ k = n =>
                         /\ m.vec = vec /\ m.heap = heap
                         /\ m.nd = 0 /\ m.nc = 0 /\ m.na = 0

\* A vector of the two elements 1 and 0 in a block of two cells: Resize(4)
\* moves or copies them to a new block and adds two value-initialized
\* elements, Resize(1) destroys the second and Resize(2) does nothing.
C13_Witness ==
    \E t \in Slots :
        /\ Running /\ Usable(t) /\ Capacity(t) = 2
        /\ Contents(Now, t) = <<1, 0>>
        /\ LET g == Resize(Now, t, 4)
               s == Resize(Now, t, 1)
           IN /\ ~Skip(g) /\ Contents(g, t) = <<1, 0, Dflt, Dflt>> /\ g.na = 1
              /\ g.vec[t].data_.capacity_ = 4
              /\ ~Skip(s) /\ Contents(s, t) = <<1>> /\ s.nd = 1
              /\ Block(s, t) = <<1, Raw>>
        /\ Resize(Now, t, 2).heap = heap

\* What the copy assignment t = o, t # o, that took the state m0 to the
\* state m has done, when it returned.
CopyAssigned(m0, m, t, o) ==
    LET old == m0.vec[t]
        src == m0.vec[o]
    IN /\ m.vec[t].size_ = src.size_
       /\ Contents(m, t) = Contents(m0, o)
       /\ m.vec[o] = src
       /\ Block(m, o) = Block(m0, o)
       /\ src.size_ <= old.data_.capacity_ =>
             /\ m.vec[t].data_ = old.data_
             /\ m.na = m0.na
             /\ m.nc = m0.nc + src.size_
             /\ m.nd = m0.nd + Max(old.size_ - src.size_, 0)
             /\ Layout(m0, t) => Layout(m, t)
       /\ src.size_ > old.data_.capacity_ =>
             /\ m.vec[t].data_.capacity_ = src.size_
             /\ m.vec[t].data_.buffer_ # old.data_.buffer_
             /\ m.na = m0.na + 1
             /\ m.nc = m0.nc + src.size_
             /\ old.data_.buffer_ # nullptr => m.heap[old.data_.buffer_] = <<>>
             /\ Layout(m, t)

\* C14: a copy assignment t = o that returns gives t the size and the
\* elements of o in order and leaves o as it was.  Where Size(o) is at most
\* Capacity(t), t keeps its block and its capacity and nothing is
\* allocated: the cells both have are assigned, the further ones of o are
\* constructed in the raw tail of t and the further ones of t are
\* destroyed.  Otherwise t gets a new block of Size(o) cells and its old
\* block is released.  An assignment t = t changes nothing.  The second part
\* is the assignment to a vector t of k value-initialized elements in a
\* block of Max(k, c) cells.
C14_CopyAssignment ==
    /\ \A t \in Slots, o \in Slots :
          (Running /\ Alive(t) /\ Usable(o) /\ T.copyable) =>
              LET m == CopyAssignment(Now, t, o)
              IN /\ Usable(t) => (~Skip(m) /\ m.ub = {})
                 /\ t = o => (m.vec = vec /\ m.heap = heap /\ m.nc = 0 /\ m.nd = 0)
                 /\ (t # o /\ ~Skip(m)) => CopyAssigned(Now, m, t, o)
    /\ \A t \in Slots, o \in Slots :
          (Running /\ ~Alive(t) /\ Usable(o) /\ T.copyable) =>
              \A k \in 0 .. MaxCap, c \in 0 .. MaxCap :
                  LET m0 == Reserve(VectorSize(Now, t, k), t, c)
                      m == CopyAssignment(m0, t, o)
                  IN ~Skip(m) /\ m.ub = {} /\ CopyAssigned(m0, m, t, o)

\* The vector o holds the elements 0 and 1.  A vector t of three elements
\* takes them in its block: two cells are assigned and the third is
\* destroyed.  A vector t of one element in a block of two cells takes them
\* in its block, one by assignment and one by construction; a vector t of one
\* cell takes them in a new block of two.
C14_Witness ==
    \E t \in Slots, o \in Slots :
        /\ Running /\ T.copyable /\ ~Alive(t) /\ Usable(o)
        /\ Contents(Now, o) = <<0, 1>>
        /\ LET t3 == VectorSize(Now, t, 3)
               m3 == CopyAssignment(t3, t, o)
               t2 == Reserve(VectorSize(Now, t, 1), t, 2)
               m2 == CopyAssignment(t2, t, o)
               t1 == VectorSize(Now, t, 1)
               m1 == CopyAssignment(t1, t, o)
           IN /\ ~Skip(m3) /\ Contents(m3, t) = <<0, 1>> /\ m3.nd = t3.nd + 1
              /\ Block(m3, t) = <<0, 1, Raw>>
              /\ ~Skip(m2) /\ Contents(m2, t) = <<0, 1>> /\ m2.na = t2.na
              /\ m2.vec[t].data_ = t2.vec[t].data_
              /\ ~Skip(m1) /\ Contents(m1, t) = <<0, 1>> /\ m1.na = t1.na + 1
              /\ m1.vec[t].data_.capacity_ = 2

\* The state after the destructors of all the vectors have run.
RECURSIVE DestroyAll(_, _)
DestroyAll(m, S) ==
    IF S = {} THEN m
    ELSE LET t == CHOOSE x \in S : \A y \in S : x <= y
         IN DestroyAll(IF m.vec[t].alive THEN Destructor(m, t) ELSE m, S \ {t})

\* The RawMemory objects that hold the block a.
Owners(m, a) == {t \in AllSlots : m.vec[t].alive /\ m.vec[t].data_.buffer_ = a}

\* C15: every allocated block is held by exactly one RawMemory object, and
\* with the capacity it was allocated with; a RawMemory object holds no
\* block that is not allocated; no operation releases a block twice; and
\* when all the vectors are destroyed every block is released, once.
C15_OneOwnerPerBlock ==
    /\ "double_release" \notin ub
    /\ \A a \in Addrs :
          IF heap[a] = <<>> THEN Owners(Now, a) = {}
          ELSE \E t \in AllSlots :
                  /\ Owners(Now, a) = {t}
                  /\ vec[t].data_.capacity_ = Len(heap[a])
    /\ \A t \in AllSlots :
          vec[t].data_.buffer_ = nullptr => vec[t].data_.capacity_ = 0
    /\ LET m == DestroyAll(Now, AllSlots)
       IN /\ "double_release" \notin m.ub
          /\ ~m.dead => \A a \in Addrs : m.heap[a] = <<>>

\* Two vectors with a block each after a move assignment between them: the
\* blocks have changed owners, and the destructors release both.
C15_Witness ==
    \E t \in Slots, o \in Slots :
        /\ Running /\ t # o /\ Alive(t) /\ Alive(o) /\ o \in moved
        /\ Capacity(t) = 2 /\ Capacity(o) = 1 /\ Size(t) = 1
        /\ heap[vec[t].data_.buffer_] # <<>> /\ heap[vec[o].data_.buffer_] # <<>>
        /\ LET m == DestroyAll(Now, AllSlots)
           IN ~m.dead /\ \A a \in Addrs : m.heap[a] = <<>>

\* The operation that started in the state m0 with the first step that can
\* throw failing has ended as m: the exception leaves it, and no vector, no
\* block and no element has changed.
FailedUntouched(m0, m) ==
    /\ m.exc /\ ~m.dead /\ m.f = 0
    /\ m.vec = m0.vec /\ m.heap = m0.heap
    /\ m.na = m0.na /\ m.nc = m0.nc /\ m.nd = m0.nd
    /\ m.ub = m0.ub /\ ~m.leak

\* C16: where Reserve, a growing Resize, PushBack, EmplaceBack, Emplace,
\* Insert or the copy assignment needs a new block and the allocation
\* fails, the exception leaves the operation before an element is moved,
\* copied, assigned or destroyed: the sizes, the capacities, the blocks and
\* the elements are as before the call.  The second part is the copy
\* assignment to a vector of k value-initialized elements.
C16_AllocationFailure ==
    /\ \A t \in Slots :
          (Running /\ Usable(t)) =>
              /\ \A k \in 0 .. MaxCap + 1 :
                    k > Capacity(t) =>
                        /\ FailedUntouched(Now, Reserve(Start(1), t, k))
                        /\ FailedUntouched(Now, Resize(Start(1), t, k))
              /\ Size(t) >= Capacity(t) =>
                    \A arg \in ValueArgs \cup ElementArgs(t), off \in 0 .. Size(t) :
                        \A m \in AddOutcomes(t, arg, off, 1) :
                            FailedUntouched(Now, m)
    /\ \A t \in Slots, o \in Slots :
          (Running /\ Alive(t) /\ Usable(o) /\ T.copyable /\ t # o
               /\ Size(o) > Capacity(t)) =>
              FailedUntouched(Now, CopyAssignment(Start(1), t, o))
    /\ \A t \in Slots, o \in Slots :
          (Running /\ ~Alive(t) /\ Usable(o) /\ T.copyable) =>
              \A k \in 0 .. MaxCap :
                  LET m0 == VectorSize(Now, t, k)
                  IN Size(o) > k =>
                        FailedUntouched(m0, CopyAssignment([m0 EXCEPT !.f = 1], t, o))

\* A full vector of the elements 1 and 0: the allocation fails in
\* Reserve(3), in Resize(3), in an append and in an insertion at the front,
\* and in the copy assignment of the vector to one of a single cell.
C16_Witness ==
    \E t \in Slots, o \in Slots :
        /\ Running /\ Usable(t) /\ ~Alive(o) /\ T.copyable
        /\ Capacity(t) = 2 /\ Contents(Now, t) = <<1, 0>>
        /\ Reserve(Start(1), t, 3).exc /\ Reserve(Start(1), t, 3).heap = heap
        /\ Resize(Start(1), t, 3).exc
        /\ PushBack(Start(1), t, Element(t, 0)).exc
        /\ Insert(Start(1), t, 0, Value(0)).exc
        /\ Contents(Insert(Start(1), t, 0, Value(0)), t) = <<1, 0>>
        /\ LET m0 == VectorSize(Now, o, 1)
               m == CopyAssignment([m0 EXCEPT !.f = 1], o, t)
           IN m.exc /\ Contents(m, o) = <<Dflt>> /\ m.na = m0.na

\* C17: where an append or an insertion to a full vector fails in the
\* transfer of the elements to the new block (a step after the allocation
\* and the construction of the new element), the unwinding destroys the
\* cells of the new block that hold an element, once each, and no raw cell:
\* as many elements are destroyed as were constructed, and none is lost
\* with the block.
C17_UnwindingDestroysLiveCells ==
    \A t \in Slots :
        (Running /\ Usable(t) /\ Size(t) = Capacity(t)) =>
            \A arg \in ValueArgs, off \in 0 .. Size(t), fl \in Fails(Size(t) + 2) :
                \A m \in AddOutcomes(t, arg, off, fl) :
                    (fl > 2 /\ m.f = 0 /\ m.exc) =>
                        /\ "destroy_raw" \notin m.ub
                        /\ m.nd = m.nc
                        /\ ~m.leak

\* C18: where an Emplace or Insert before the end of a vector with a spare
\* cell fails in any step (the temporary, the move of the last element
\* into the cell Size(), the shift, the assignment of the temporary), the
\* vector has the size, the capacity and the elements it had, in order,
\* and the cells from Size() on are raw.
C18_InPlaceInsertFailure ==
    \A t \in Slots :
        (Running /\ Usable(t) /\ Layout(Now, t) /\ Capacity(t) > Size(t)) =>
            \A arg \in ValueArgs, off \in 0 .. Size(t), fl \in Fails(Size(t) + 2) :
                \A m \in {Emplace(Start(fl), t, off, arg), Insert(Start(fl), t, off, arg)} :
                    (off < Size(t) /\ m.f = 0 /\ m.exc) =>
                        /\ m.vec[t] = vec[t]
                        /\ Contents(m, t) = Contents(Now, t)
                        /\ Layout(m, t)

\* C19: every element that is constructed is destroyed once: no operation
\* destroys a cell that holds no element, and when the destructors of all
\* the vectors have run no destructor has touched a raw cell or a cell
\* outside its block, and no block was released with a live element in it.
C19_DestroyedExactlyOnce ==
    /\ "destroy_raw" \notin ub
    /\ LET m == DestroyAll(Now, AllSlots)
       IN m.ub = {} /\ ~m.leak

\* C20: a PushBack, Insert or Emplace whose argument is a reference to the
\* element i of the same vector adds the value that element had before the
\* call, with a spare cell and without one: the elements are the old ones
\* with that value put in at the end, or at the offset of the insertion.
C20_SelfReferenceArgument ==
    \A t \in Slots :
        (Running /\ Usable(t) /\ T.copyable) =>
            \A i \in {j \in 0 .. MaxCap : j < Size(t)} :
                LET e == Contents(Now, t)
                    arg == Element(t, i)
                    a == PushBack(Now, t, arg)
                IN /\ ~Skip(a) /\ "read_raw" \notin a.ub
                   /\ Contents(a, t) = Append(e, e[i + 1])
                   /\ \A off \in 0 .. Size(t) :
                         \A m \in {Insert(Now, t, off, arg), Emplace(Now, t, off, arg)} :
                             /\ ~Skip(m) /\ "read_raw" \notin m.ub
                             /\ Contents(m, t)[off + 1] = e[i + 1]
                             /\ Contents(m, t) = InsertAt(e, off, e[i + 1])

\* A vector of the elements 1 and 0 with a spare cell: its second element
\* is inserted at the front by the shift and its first is appended in the
\* block; it is full then, and its second element is inserted before
\* itself, and its first appended, in a new block.
C20_Witness ==
    \E t \in Slots :
        /\ Running /\ Usable(t) /\ T.copyable /\ Capacity(t) = 3
        /\ Contents(Now, t) = <<1, 0>>
        /\ LET s == Insert(Now, t, 0, Element(t, 1))
               a == PushBack(Now, t, Element(t, 0))
               r == Emplace(a, t, 1, Element(t, 1))
               b == PushBack(a, t, Element(t, 0))
           IN /\ ~Skip(s) /\ Contents(s, t) = <<0, 1, 0>> /\ s.na = 0
              /\ ~Skip(a) /\ Contents(a, t) = <<1, 0, 1>> /\ a.na = 0
              /\ ~Skip(r) /\ Contents(r, t) = <<1, 0, 0, 1>> /\ r.na = 1
              /\ ~Skip(b) /\ Contents(b, t) = <<1, 0, 1, 1>> /\ b.na = 1

====
